---- MODULE Spec2Model ----
(***************************************************************************)
(* Model of the parallel-vectorize engine generated by                     *)
(* numbapro/vectorize/parallel.py: the thread dispatcher                   *)
(* (ParallelUFunc.body and the POSIX / Windows _dispatch_worker mixins),   *)
(* the per-thread worker (UFuncCore: local drain of the own WorkQueue,     *)
(* then work stealing), the WorkQueue spin-lock, and the strided kernel    *)
(* loop (UFuncCoreGeneric._do_work).                                       *)
(***************************************************************************)
EXTENDS Integers, Sequences, FiniteSets, TLC

(* ---------------------------------------------------------------- *)
(* Program constants                                                *)
(* ---------------------------------------------------------------- *)
ENABLE_WORK_STEALING == TRUE
CHECK_RACE_CONDITION == TRUE
GRANULARITY == 256

(* ---------------------------------------------------------------- *)
(* Bounds of the model                                              *)
(* ---------------------------------------------------------------- *)
\* configured thread counts 1..MaxThreads for the small batches
MaxThreads == 3
\* small batches N in 0..MaxSmallN
MaxSmallN == 3
\* large batches: t configured threads, t in 1..MaxStealThreads, and
\* N = t*GRANULARITY + 1: every initial queue holds one full steal, the last
\* queue one element more
MaxStealThreads == 2
\* (and N = t*(GRANULARITY - 1) for t in 2..MaxStealThreads: every initial
\* queue holds one element less than a full steal)
\* deep batches: two configured threads and N = 2*k*GRANULARITY - 1 for k in
\* 2..MaxOwnChunks: the last queue holds k full chunks, so a full steal is
\* still available after its owner popped
MaxOwnChunks == 2

Platforms == {"posix", "win32"}

\* the kernel has NumInputs arguments; args/steps have NumInputs+1 entries,
\* the last one being the output
NumInputs == 2
OutIdx == NumInputs

\* (N, ThreadCount) pairs explored
Batches ==
    {<<n, t>> : n \in 0..MaxSmallN, t \in 1..MaxThreads}
    \cup {<<t * GRANULARITY + 1, t>> : t \in 1..MaxStealThreads}
    \cup {<<t * (GRANULARITY - 1), t>> : t \in 2..MaxStealThreads}
    \cup {<<2 * k * GRANULARITY - 1, 2>> : k \in 2..MaxOwnChunks}

\* memory layouts explored: base offset and stride of every argument, in
\* units of one element; the output stride is positive (valid batch), an
\* input stride may be 0 (broadcast scalar) or larger than one element
Layouts ==
    { [args |-> (0 :> 0 @@ 1 :> 0 @@ 2 :> 0), steps |-> (0 :> 1 @@ 1 :> 1 @@ 2 :> 1)],
      [args |-> (0 :> 1 @@ 1 :> 2 @@ 2 :> 1), steps |-> (0 :> 2 @@ 1 :> 0 @@ 2 :> 2)] }

\* contents of input buffer i at offset a (inputs are never written)
InputAt(i, a) == (a + i) % 3

\* the scalar kernel f(a0, a1) -> r, pure
Kernel(x, y) == x + 3 * y

\* value of an output cell no store has reached
Untouched == 0 - 1

Min(a, b) == IF a < b THEN a ELSE b

(* ---------------------------------------------------------------- *)
(* State                                                            *)
(* ---------------------------------------------------------------- *)
VARIABLES
    N,              \* dimensions[0]
    ThreadCount,    \* ParallelUFunc.ThreadCount (specialize)
    platform,       \* sys.platform selects the mixin
    args,           \* common.args: base offset of every argument buffer
    steps,          \* common.steps
    dpc,            \* position of the dispatcher (ParallelUFunc.body)
    di,             \* loop index of the spawn / join loops
    num_thread,     \* effective thread count (common.num_thread)
    ChunkSize,
    workqueues,     \* array of WorkQueue [next, last, lock]
    contexts,       \* array of Context [id, completed]
    total_completed,
    wpc,            \* position of every worker thread
    item,           \* per worker: local 'item'
    AMT,            \* per worker: local 'AMT' (drain)
    last,           \* per worker: local snapshot 'last' (drain)
    steal_continue, \* per worker: flag of _do_work_stealing
    peer,           \* per worker: loop index i of _do_work_stealing_innerloop
    took,           \* per worker: branch taken in _do_work_stealing_check
    pass,           \* history: per worker, the steal-checks <<peer, stole>> of
                    \* the current pass of _do_work_stealing_innerloop
    out,            \* the output buffer
    claimed,        \* history: per worker, the ranges <<item, amt>> removed from queues
    worked,         \* history: per worker, the ranges <<item, count>> given to _do_work
    apiFailed,      \* history: a thread-API call (create, join) failed
    stray           \* history: the setup stored outside the allocated arrays

batch == <<N, ThreadCount, platform, args, steps>>
dvars == <<dpc, di, num_thread, ChunkSize, total_completed>>
wlocals == <<item, AMT, last, steal_continue, peer, took, pass>>
vars == <<N, ThreadCount, platform, args, steps, dpc, di, num_thread, ChunkSize,
          workqueues, contexts, total_completed, wpc, item, AMT, last,
          steal_continue, peer, took, pass, out, claimed, worked, apiFailed, stray>>

Tids == 0..(num_thread - 1)

\* the process is gone: unreachable() was executed, or the stray store of
\* the setup brought it down
Dead == {"abort_spawn", "abort_join", "abort_audit", "abort_lock", "crashed"}
Alive == dpc \notin Dead

OutCells == 0..(args[OutIdx] + N * steps[OutIdx])

Init ==
    /\ \E b \in Batches : N = b[1] /\ ThreadCount = b[2]
    /\ platform \in Platforms
    /\ \E l \in Layouts : args = l.args /\ steps = l.steps
    /\ dpc = "start"
    /\ di = 0
    /\ num_thread = 0
    /\ ChunkSize = 0
    /\ workqueues = << >>
    /\ contexts = << >>
    /\ total_completed = 0
    /\ wpc = << >>
    /\ item = << >>
    /\ AMT = << >>
    /\ last = << >>
    /\ steal_continue = << >>
    /\ peer = << >>
    /\ took = << >>
    /\ pass = << >>
    /\ out = [a \in OutCells |-> Untouched]
    /\ claimed = << >>
    /\ worked = << >>
    /\ apiFailed = FALSE
    /\ stray = FALSE

(* ---------------------------------------------------------------- *)
(* Dispatcher: ParallelUFunc.body                                   *)
(* ---------------------------------------------------------------- *)
\* mutant: a zero chunk is kept
EffectiveChunkUnguarded(n, t) == n \div t

\* ChunkSize = N / num_thread; a zero chunk becomes 1 ...
EffectiveChunk(n, t) == IF n \div t = 0 THEN 1 ELSE n \div t
\* mutant: num_thread keeps the configured count
EffectiveThreadsKept(n, t) == t

\* ... and then num_thread is reassigned to N
EffectiveThreads(n, t) == IF n \div t = 0 THEN n ELSE t

\* index of the queue whose 'last' is overwritten with N after the loop
LastQueueIndex(nt) == nt - 1

\* _populate_workqueues: the loop over i < num_thread, then the store of N
\* into workqueues[num_thread - 1].last (when that slot exists)
PopulateWorkqueues(n, chunk, nt) ==
    [i \in 0..(nt - 1) |->
        [next |-> i * chunk,
         last |-> IF i = LastQueueIndex(nt) THEN n ELSE (i + 1) * chunk,
         lock |-> 0]]

\* the store through workqueues[num_thread - 1] falls outside the array
StrayStore(nt) == LastQueueIndex(nt) \notin 0..(nt - 1)

\* _populate_context
PopulateContext(nt) == [i \in 0..(nt - 1) |-> [id |-> i, completed |-> 0]]

\* body, lines 139-167: sizes, arrays, common, queues and contexts.  A store
\* outside the zero-length workqueues array is undefined behaviour: it may
\* land in unused stack memory or bring the process down.
Setup ==
    /\ dpc = "start"
    /\ LET chunk == EffectiveChunk(N, ThreadCount)
           nt == EffectiveThreads(N, ThreadCount)
       IN  /\ ChunkSize' = chunk
           /\ num_thread' = nt
           /\ workqueues' = PopulateWorkqueues(N, chunk, nt)
           /\ contexts' = PopulateContext(nt)
           /\ wpc' = [t \in 0..(nt - 1) |-> "unborn"]
           /\ item' = [t \in 0..(nt - 1) |-> 0]
           /\ AMT' = [t \in 0..(nt - 1) |-> 0]
           /\ last' = [t \in 0..(nt - 1) |-> 0]
           /\ steal_continue' = [t \in 0..(nt - 1) |-> 0]
           /\ peer' = [t \in 0..(nt - 1) |-> 0]
           /\ took' = [t \in 0..(nt - 1) |-> FALSE]
           /\ pass' = [t \in 0..(nt - 1) |-> {}]
           /\ claimed' = [t \in 0..(nt - 1) |-> << >>]
           /\ worked' = [t \in 0..(nt - 1) |-> << >>]
           /\ stray' = StrayStore(nt)
           /\ IF StrayStore(nt)
                 THEN dpc' \in {"spawn", "crashed"}
                 ELSE dpc' = "spawn"
    /\ di' = 0
    /\ UNCHANGED <<batch, total_completed, out, apiFailed>>

\* _dispatch_worker, first loop: pthread_create / CreateThread succeeded
SpawnOk ==
    /\ dpc = "spawn" /\ di < num_thread
    /\ wpc' = [wpc EXCEPT ![di] = "d_lock"]
    /\ di' = di + 1
    /\ UNCHANGED <<batch, dpc, num_thread, ChunkSize, total_completed, workqueues,
                   contexts, wlocals, out, claimed, worked, apiFailed, stray>>

\* (the model lets at most one thread-API call of a batch fail)
\* what the dispatcher does with a failed pthread_create (status checked,
\* unreachable) or a failed CreateThread (handle stored, never checked)
AfterSpawnFailure(pf) == IF pf = "posix" THEN "abort_spawn" ELSE "spawn"

SpawnFail ==
    /\ dpc = "spawn" /\ di < num_thread
    /\ ~apiFailed
    /\ apiFailed' = TRUE
    /\ dpc' = AfterSpawnFailure(platform)
    /\ di' = di + 1
    /\ UNCHANGED <<batch, num_thread, ChunkSize, total_completed, workqueues,
                   contexts, wpc, wlocals, out, claimed, worked, stray>>

\* end of the first for_range loop
SpawnDone ==
    /\ dpc = "spawn" /\ di >= num_thread
    /\ dpc' = "join" /\ di' = 0
    /\ UNCHANGED <<batch, num_thread, ChunkSize, total_completed, workqueues,
                   contexts, wpc, wlocals, out, claimed, worked, apiFailed, stray>>

\* second loop: pthread_join / WaitForSingleObject returns once the thread
\* has terminated
JoinOk ==
    /\ dpc = "join" /\ di < num_thread
    /\ wpc[di] = "exit"
    /\ di' = di + 1
    /\ UNCHANGED <<batch, dpc, num_thread, ChunkSize, total_completed, workqueues,
                   contexts, wpc, wlocals, out, claimed, worked, apiFailed, stray>>

\* a failed pthread_join is checked (unreachable); the result of
\* WaitForSingleObject is dropped and the loop goes on
AfterJoinFailure(pf) == IF pf = "posix" THEN "abort_join" ELSE "join"

JoinFail ==
    /\ dpc = "join" /\ di < num_thread
    /\ ~apiFailed
    /\ apiFailed' = TRUE
    /\ dpc' = AfterJoinFailure(platform)
    /\ di' = di + 1
    /\ UNCHANGED <<batch, num_thread, ChunkSize, total_completed, workqueues,
                   contexts, wpc, wlocals, out, claimed, worked, stray>>

JoinDone ==
    /\ dpc = "join" /\ di >= num_thread
    /\ dpc' = "audit"
    /\ UNCHANGED <<batch, di, num_thread, ChunkSize, total_completed, workqueues,
                   contexts, wpc, wlocals, out, claimed, worked, apiFailed, stray>>

RECURSIVE SumCompleted(_, _)
\* total_completed += contexts[t].completed for t < n
SumCompleted(ctxs, n) ==
    IF n <= 0 THEN 0 ELSE SumCompleted(ctxs, n - 1) + ctxs[n - 1].completed

\* the race-condition check and the return
Audit ==
    /\ dpc = "audit"
    /\ IF CHECK_RACE_CONDITION
          THEN /\ total_completed' = SumCompleted(contexts, num_thread)
               /\ dpc' = IF total_completed' = N THEN "returned" ELSE "abort_audit"
          ELSE /\ total_completed' = total_completed
               /\ dpc' = "returned"
    /\ UNCHANGED <<batch, di, num_thread, ChunkSize, workqueues, contexts, wpc,
                   wlocals, out, claimed, worked, apiFailed, stray>>

(* ---------------------------------------------------------------- *)
(* WorkQueue.Lock / WorkQueue.Unlock                                *)
(* ---------------------------------------------------------------- *)
\* mutant: the lock word is stored without looking at its old value
LockAcquiredBlindly(q) == TRUE

\* Lock: the cmpxchg(0 -> 1) loop leaves only when it read 0; a failed
\* cmpxchg changes nothing and is retried
LockAcquired(q) == q.lock = 0

\* Unlock: cmpxchg(1 -> 0); res != locked leads to unreachable()
UnlockSeesLocked(q) == q.lock = 1

\* mutant: the lock word is left as it is
ReleasedNever(q) == q

\* the lock word after the cmpxchg(1 -> 0)
Released(q) == IF q.lock = 1 THEN [q EXCEPT !.lock = 0] ELSE q

(* ---------------------------------------------------------------- *)
(* UFuncCoreGeneric._do_work                                        *)
(* ---------------------------------------------------------------- *)
\* mutant: the start pointer ignores the stride
ArgPtrNoStride(i, it) == args[i] + it

\* arg_ptrs[i] = args[i][item * steps[i]:]
ArgPtr(i, it) == args[i] + it * steps[i]

\* arg_ptrs, set up before the loop for every argument and the output
ArgPtrs(it) == [i \in 0..NumInputs |-> ArgPtr(i, it)]

\* arg_ptrs[i] after k rounds of arg_ptrs[i] = arg_ptrs[i][arg_steps[i]:]
PtrAt(ptrs, i, k) == ptrs[i] + k * steps[i]

\* the value stored in round k of the loop: f of the loads of round k
Result(ptrs, k) ==
    Kernel(InputAt(0, PtrAt(ptrs, 0, k)), InputAt(1, PtrAt(ptrs, 1, k)))

\* mutant: a kernel with cross-element dependence: what it stores depends
\* on whether output slot 0 was already written
DoWorkOrderDependent(mem, it, count) ==
    LET ptrs == ArgPtrs(it)
        base == ptrs[OutIdx]
        step == steps[OutIdx]
        seen == IF mem[args[OutIdx]] = Untouched THEN 0 ELSE 1
    IN  [a \in {PtrAt(ptrs, OutIdx, k) : k \in 0..(count - 1)} |->
            Result(ptrs, (a - base) \div step) + seen] @@ mem

\* the output buffer after the for_range(count) loop: the cell reached in
\* round k holds the result of round k (the output stride is positive, so
\* the round of cell a is (a - arg_ptrs[-1]) / step); other cells keep
\* their value
DoWork(mem, it, count) ==
    LET ptrs == ArgPtrs(it)
        base == ptrs[OutIdx]
        step == steps[OutIdx]
    IN  [a \in {PtrAt(ptrs, OutIdx, k) : k \in 0..(count - 1)} |->
            Result(ptrs, (a - base) \div step)] @@ mem

(* ---------------------------------------------------------------- *)
(* Worker: UFuncCore._do_workqueue (local drain)                    *)
(* ---------------------------------------------------------------- *)
\* mutant: a full chunk is taken whatever is left
DrainAmountFull(q) == GRANULARITY

\* AMT = min(GRANULARITY, workqueue.last - workqueue.next)
DrainAmount(q) == Min(GRANULARITY, q.last - q.next)

\* workqueue.next += AMT
Advanced(q, amt) == [q EXCEPT !.next = q.next + amt]

\* mutant: the loop is left only when item is beyond last
DrainExhaustedLate(it, lst) == it > lst

\* the loop is left when item >= last
DrainExhausted(it, lst) == it >= lst

\* mutant: a full chunk is counted whatever count is
CompletedFullChunk(c, count) == [c EXCEPT !.completed = c.completed + GRANULARITY]

\* completed += count
Completed(c, count) == [c EXCEPT !.completed = c.completed + count]

Record(hist, t, it, amt) ==
    IF amt = 0 THEN hist ELSE [hist EXCEPT ![t] = Append(hist[t], <<it, amt>>)]

(* ---------------------------------------------------------------- *)
(* Worker: UFuncCore._do_work_stealing                              *)
(* ---------------------------------------------------------------- *)
STEAL_STOP == 0
STEAL_CONTINUE == 1
STEAL_AMT == GRANULARITY

\* mutant: the test i != tid is missing
NextPeerAny(t, from) == IF from <= num_thread - 1 THEN from ELSE num_thread

\* mutant: the for_range leaves out index 0
NextPeerSkipsFirst(t, from) ==
    IF \E j \in from..(num_thread - 1) : j # t /\ j # 0
      THEN CHOOSE j \in from..(num_thread - 1) :
              j # t /\ j # 0 /\ \A k \in from..(j - 1) : k = t \/ k = 0
      ELSE num_thread

\* _do_work_stealing_innerloop: the first index i >= from with i != tid,
\* or num_thread when the for_range is over
NextPeer(t, from) ==
    IF \E j \in from..(num_thread - 1) : j # t
      THEN CHOOSE j \in from..(num_thread - 1) :
              j # t /\ \A k \in from..(j - 1) : k = t
      ELSE num_thread

\* mutant: steal_continue is never set back to STEAL_STOP
StealAdvanceNoReset(t, from, sc) ==
    IF NextPeer(t, from) < num_thread
      THEN [pc |-> "s_lock", peer |-> NextPeer(t, from), sc |-> sc]
      ELSE IF sc # STEAL_STOP /\ NextPeer(t, 0) < num_thread
             THEN [pc |-> "s_lock", peer |-> NextPeer(t, 0), sc |-> sc]
             ELSE [pc |-> "exit", peer |-> num_thread, sc |-> STEAL_STOP]

\* Where a worker stands once the inner loop moves on to index 'from' with
\* flag sc: at the Lock of the next peer; or, the for_range over, back at
\* the loop condition of _do_work_stealing, which either leaves (sc is
\* STEAL_STOP) or sets sc to STEAL_STOP and starts a new pass at index 0.
StealAdvance(t, from, sc) ==
    IF NextPeer(t, from) < num_thread
      THEN [pc |-> "s_lock", peer |-> NextPeer(t, from), sc |-> sc]
      ELSE IF sc # STEAL_STOP /\ NextPeer(t, 0) < num_thread
             THEN [pc |-> "s_lock", peer |-> NextPeer(t, 0), sc |-> STEAL_STOP]
             ELSE [pc |-> "exit", peer |-> num_thread, sc |-> STEAL_STOP]

\* history: the checks of the current pass once the check of peer[t] is
\* over and the worker stands at 'to'; a new pass starts with none
PassAfter(t, stole, to) ==
    IF to.pc = "s_lock" /\ to.peer <= peer[t]
      THEN {}
      ELSE pass[t] \cup {<<peer[t], stole>>}

\* mutant: a steal of whatever is left, without a full STEAL_AMT available
StealAllowedAnyWork(q) == q.next < q.last

\* mutant: the steal test is off by one element
StealAllowedNearlyFull(q) == q.next <= q.last - (STEAL_AMT - 1)

\* mutant: the steal test is missing
StealAllowedAlways(q) == TRUE

\* mutant: a queue holding exactly STEAL_AMT elements is not stolen from
StealAllowedStrict(q) == q.next < q.last - STEAL_AMT

\* the steal test: otherqueue.next <= otherqueue.last - STEAL_AMT
StealAllowed(q) == q.next <= q.last - STEAL_AMT

\* mutant: the stolen chunk is taken from the front
RetractedFromFront(q) == [q EXCEPT !.next = q.next + STEAL_AMT]

\* mutant: the tail moves the wrong way
RetractedUp(q) == [q EXCEPT !.last = q.last + STEAL_AMT]

\* otherqueue.last -= STEAL_AMT
Retracted(q) == [q EXCEPT !.last = q.last - STEAL_AMT]

(* ---------------------------------------------------------------- *)
(* Worker steps                                                     *)
(* ---------------------------------------------------------------- *)
\* _do_workqueue, lines 302-309: Lock() and the critical section
DrainPop(t) ==
    /\ Alive /\ wpc[t] = "d_lock"
    /\ LockAcquired(workqueues[t])
    /\ LET q == workqueues[t]
           amt == DrainAmount(q)
       IN  /\ item' = [item EXCEPT ![t] = q.next]
           /\ AMT' = [AMT EXCEPT ![t] = amt]
           /\ workqueues' = [workqueues EXCEPT ![t] = [Advanced(q, amt) EXCEPT !.lock = 1]]
           /\ last' = [last EXCEPT ![t] = q.last]
           /\ claimed' = Record(claimed, t, q.next, amt)
    /\ wpc' = [wpc EXCEPT ![t] = "d_held"]
    /\ UNCHANGED <<batch, dvars, contexts, steal_continue, peer, took, pass, out,
                   worked, apiFailed, stray>>

\* lines 311-315: Unlock(), then the exit test; leaving the loop enters
\* _do_work_stealing with steal_continue = 1 when work stealing is compiled in
DrainUnlock(t) ==
    /\ Alive /\ wpc[t] = "d_held"
    /\ workqueues' = [workqueues EXCEPT ![t] = Released(workqueues[t])]
    /\ IF UnlockSeesLocked(workqueues[t])
          THEN /\ dpc' = dpc
               /\ IF DrainExhausted(item[t], last[t])
                    THEN LET to == IF ENABLE_WORK_STEALING
                                     THEN StealAdvance(t, num_thread, STEAL_CONTINUE)
                                     ELSE [pc |-> "exit", peer |-> peer[t],
                                           sc |-> steal_continue[t]]
                         IN  /\ wpc' = [wpc EXCEPT ![t] = to.pc]
                             /\ peer' = [peer EXCEPT ![t] = to.peer]
                             /\ steal_continue' = [steal_continue EXCEPT ![t] = to.sc]
                    ELSE /\ wpc' = [wpc EXCEPT ![t] = "d_work"]
                         /\ UNCHANGED <<peer, steal_continue>>
          ELSE /\ dpc' = "abort_lock"
               /\ UNCHANGED <<wpc, peer, steal_continue>>
    /\ UNCHANGED <<batch, di, num_thread, ChunkSize, total_completed, contexts,
                   item, AMT, last, took, pass, out, claimed, worked, apiFailed, stray>>

\* lines 319-320: the kernel over [item, item+AMT), completed += AMT
DrainWork(t) ==
    /\ Alive /\ wpc[t] = "d_work"
    /\ out' = DoWork(out, item[t], AMT[t])
    /\ contexts' = [contexts EXCEPT ![t] = Completed(contexts[t], AMT[t])]
    /\ worked' = Record(worked, t, item[t], AMT[t])
    /\ wpc' = [wpc EXCEPT ![t] = "d_lock"]
    /\ UNCHANGED <<batch, dvars, workqueues, wlocals, claimed, apiFailed, stray>>

\* _do_work_stealing_check, lines 355-362: Lock(), the test and, when it
\* holds, the retraction of last
StealTry(t) ==
    /\ Alive /\ wpc[t] = "s_lock"
    /\ LockAcquired(workqueues[peer[t]])
    /\ LET q == workqueues[peer[t]]
       IN  IF StealAllowed(q)
             THEN /\ workqueues' = [workqueues EXCEPT ![peer[t]] =
                                        [Retracted(q) EXCEPT !.lock = 1]]
                  /\ item' = [item EXCEPT ![t] = Retracted(q).last]
                  /\ took' = [took EXCEPT ![t] = TRUE]
                  /\ claimed' = Record(claimed, t, Retracted(q).last, STEAL_AMT)
             ELSE /\ workqueues' = [workqueues EXCEPT ![peer[t]].lock = 1]
                  /\ took' = [took EXCEPT ![t] = FALSE]
                  /\ UNCHANGED <<item, claimed>>
    /\ wpc' = [wpc EXCEPT ![t] = "s_held"]
    /\ UNCHANGED <<batch, dvars, contexts, AMT, last, steal_continue, peer, pass,
                   out, worked, apiFailed, stray>>

\* Unlock() of either branch (lines 364, 375); the branch without a steal
\* moves on to the next peer
StealUnlock(t) ==
    /\ Alive /\ wpc[t] = "s_held"
    /\ workqueues' = [workqueues EXCEPT ![peer[t]] = Released(workqueues[peer[t]])]
    /\ IF UnlockSeesLocked(workqueues[peer[t]])
          THEN /\ dpc' = dpc
               /\ IF took[t]
                    THEN /\ wpc' = [wpc EXCEPT ![t] = "s_work"]
                         /\ UNCHANGED <<peer, steal_continue, pass>>
                    ELSE LET to == StealAdvance(t, peer[t] + 1, steal_continue[t])
                         IN  /\ wpc' = [wpc EXCEPT ![t] = to.pc]
                             /\ peer' = [peer EXCEPT ![t] = to.peer]
                             /\ steal_continue' = [steal_continue EXCEPT ![t] = to.sc]
                             /\ pass' = [pass EXCEPT ![t] = PassAfter(t, FALSE, to)]
          ELSE /\ dpc' = "abort_lock"
               /\ UNCHANGED <<wpc, peer, steal_continue, pass>>
    /\ UNCHANGED <<batch, di, num_thread, ChunkSize, total_completed, contexts,
                   item, AMT, last, took, out, claimed, worked, apiFailed, stray>>

\* lines 368-372: the kernel over the stolen range, completed += STEAL_AMT,
\* steal_continue = STEAL_CONTINUE; then the next peer
StealWork(t) ==
    /\ Alive /\ wpc[t] = "s_work"
    /\ out' = DoWork(out, item[t], STEAL_AMT)
    /\ contexts' = [contexts EXCEPT ![t] = Completed(contexts[t], STEAL_AMT)]
    /\ worked' = Record(worked, t, item[t], STEAL_AMT)
    /\ LET to == StealAdvance(t, peer[t] + 1, STEAL_CONTINUE)
       IN  /\ wpc' = [wpc EXCEPT ![t] = to.pc]
           /\ peer' = [peer EXCEPT ![t] = to.peer]
           /\ steal_continue' = [steal_continue EXCEPT ![t] = to.sc]
           /\ pass' = [pass EXCEPT ![t] = PassAfter(t, TRUE, to)]
    /\ UNCHANGED <<batch, dvars, workqueues, item, AMT, last, took, claimed,
                   apiFailed, stray>>

\* UFuncCore.body: one step of worker t
Worker(t) ==
    \/ DrainPop(t) \/ DrainUnlock(t) \/ DrainWork(t)
    \/ StealTry(t) \/ StealUnlock(t) \/ StealWork(t)

\* a worker still running after body returned uses the released frame of the
\* dispatcher (its contexts and workqueues): undefined behaviour, which may
\* go unnoticed (the worker steps above) or bring the process down
DanglingCrash ==
    /\ dpc = "returned"
    /\ \E t \in Tids : wpc[t] \notin {"unborn", "exit"}
    /\ dpc' = "crashed"
    /\ UNCHANGED <<batch, di, num_thread, ChunkSize, total_completed, workqueues,
                   contexts, wpc, wlocals, out, claimed, worked, apiFailed, stray>>

\* the steps the dispatcher takes when the thread API does not fail
Dispatcher ==
    \/ Setup
    \/ SpawnOk \/ SpawnDone
    \/ JoinOk \/ JoinDone
    \/ Audit

\* the largest thread id any explored batch has
MaxTid == (IF MaxThreads > MaxStealThreads THEN MaxThreads ELSE MaxStealThreads) - 1

Next ==
    \/ Setup
    \/ SpawnOk
    \/ SpawnFail
    \/ SpawnDone
    \/ JoinOk
    \/ JoinFail
    \/ JoinDone
    \/ Audit
    \/ \E t \in Tids : DrainPop(t)
    \/ \E t \in Tids : DrainUnlock(t)
    \/ \E t \in Tids : DrainWork(t)
    \/ \E t \in Tids : StealTry(t)
    \/ \E t \in Tids : StealUnlock(t)
    \/ \E t \in Tids : StealWork(t)
    \/ DanglingCrash

Spec == Init /\ [][Next]_vars

\* scheduling: the operating system keeps running the dispatcher and every
\* worker thread it created; a failure of the thread API is never forced
FairSpec ==
    /\ Spec
    /\ WF_vars(Dispatcher)
    /\ \A t \in 0..MaxTid : WF_vars(t \in Tids /\ Worker(t))

(* ---------------------------------------------------------------- *)
(* Vocabulary of the properties                                     *)
(* ---------------------------------------------------------------- *)
\* every worker of the batch was created and has returned
AllExited == dpc # "start" /\ \A t \in Tids : wpc[t] = "exit"

\* the ranges removed from queues so far, as <<thread, position in its history>>
AllClaims == UNION {{<<t, j>> : j \in 1..Len(claimed[t])} : t \in DOMAIN claimed}
ClaimItem(e) == claimed[e[1]][e[2]][1]
ClaimAmt(e) == claimed[e[1]][e[2]][2]
Covers(e, k) == ClaimItem(e) <= k /\ k < ClaimItem(e) + ClaimAmt(e)

\* the queue thread t started with
InitialQueue(t) == PopulateWorkqueues(N, ChunkSize, num_thread)[t]

\* thread t removed a range from a queue that is not its own
StoleSome(t) ==
    \E j \in 1..Len(claimed[t]) :
        claimed[t][j][1] < InitialQueue(t).next \/ claimed[t][j][1] >= InitialQueue(t).last

\* the threads inside the critical section of queue q
Holders(q) ==
    {t \in Tids : (wpc[t] = "d_held" /\ t = q) \/ (wpc[t] = "s_held" /\ peer[t] = q)}

\* the threads spinning in Lock() of queue q
Waiters(q) ==
    {t \in Tids : (wpc[t] = "d_lock" /\ t = q) \/ (wpc[t] = "s_lock" /\ peer[t] = q)}

\* position of thread t, "none" for a thread the batch does not have
WpcOf(t) == IF t \in DOMAIN wpc THEN wpc[t] ELSE "none"

\* the sequential reference loop: the value of output slot k
Reference(k) ==
    Kernel(InputAt(0, args[0] + k * steps[0]), InputAt(1, args[1] + k * steps[1]))

\* the cell of output slot k
OutSlot(k) == args[OutIdx] + k * steps[OutIdx]

\* number of elements given to the kernel by thread t
RECURSIVE Elements(_)
Elements(h) == IF h = << >> THEN 0 ELSE Head(h)[2] + Elements(Tail(h))

(* ---------------------------------------------------------------- *)
(* C1  Partition                                                    *)
(* ---------------------------------------------------------------- *)
\* C1: for N >= 1, every range removed from a queue is a non-empty range
\* inside [0, N), any two removed ranges (of the same or of different
\* threads, drained or stolen) are disjoint, and once every worker has
\* exited every index of [0, N) lies in exactly one removed range.
C1_Partition ==
    N >= 1 =>
        /\ \A e \in AllClaims :
              ClaimAmt(e) >= 1 /\ ClaimItem(e) >= 0 /\ ClaimItem(e) + ClaimAmt(e) <= N
        /\ \A e1, e2 \in AllClaims :
              e1 # e2 => \/ ClaimItem(e1) + ClaimAmt(e1) <= ClaimItem(e2)
                         \/ ClaimItem(e2) + ClaimAmt(e2) <= ClaimItem(e1)
        /\ AllExited =>
              \A k \in 0..(N - 1) : Cardinality({e \in AllClaims : Covers(e, k)}) = 1

\* all workers have exited after a batch in which a thread stole from a peer
\* whose owner also drained part of the same queue
C1_Witness ==
    /\ AllExited
    /\ N > GRANULARITY
    /\ \E t, u \in Tids :
          /\ t # u /\ StoleSome(t)
          /\ \E j \in 1..Len(claimed[u]) : claimed[u][j][2] < GRANULARITY

(* ---------------------------------------------------------------- *)
(* C2  Exactness                                                    *)
(* ---------------------------------------------------------------- *)
\* C2: when run_parallel has returned, every output slot k in [0, N), at
\* args[A] + k*steps[A], holds the kernel applied to the inputs read at
\* args[i] + k*steps[i], as the sequential reference loop leaves it.
C2_Exactness ==
    dpc = "returned" => \A k \in 0..(N - 1) : out[OutSlot(k)] = Reference(k)

\* a returned batch with a non-unit output stride in which a range was stolen
C2_Witness ==
    /\ dpc = "returned"
    /\ steps[OutIdx] = 2 /\ steps[1] = 0
    /\ \E t \in Tids : StoleSome(t)

(* ---------------------------------------------------------------- *)
(* C3  Accounting                                                   *)
(* ---------------------------------------------------------------- *)
\* C3: once the workers have been joined (the join loop is over and no
\* thread-API call failed) every worker has terminated and the completed
\* counters add up to N, and the audit never takes its abort branch.
C3_Accounting ==
    ~apiFailed =>
        /\ dpc # "abort_audit"
        /\ dpc \in {"audit", "returned"} =>
              /\ \A t \in Tids : wpc[t] = "exit"
              /\ SumCompleted(contexts, num_thread) = N
        /\ dpc = "returned" => total_completed = N

\* the audit is about to run after a batch with a steal and a short drain
C3_Witness ==
    /\ dpc = "audit" /\ ~apiFailed
    /\ \E t \in Tids : StoleSome(t)
    /\ \E t \in Tids : contexts[t].completed % GRANULARITY # 0

(* ---------------------------------------------------------------- *)
(* C4  Termination                                                  *)
(* ---------------------------------------------------------------- *)
\* C4: under fair scheduling, a batch whose thread-API calls all succeed
\* (and which the stray store of an empty batch does not bring down)
\* eventually reaches the state in which every worker has left
\* the drain and steal loops and exited, all joins are done and
\* run_parallel has returned.  (A worker that spun forever in Lock(), or
\* went round the steal loop forever, would never exit.)
C4_Termination ==
    <>(\/ dpc = "returned" /\ \A t \in Tids : wpc[t] = "exit"
       \/ apiFailed
       \/ dpc = "crashed")

\* a batch without API failure has returned after a worker went through a
\* second steal pass (a pass that followed a successful steal)
C4_Witness ==
    /\ dpc = "returned" /\ ~apiFailed
    /\ \E t \in Tids : StoleSome(t) /\ wpc[t] = "exit"
    /\ num_thread >= 2

(* ---------------------------------------------------------------- *)
(* C5  Lock safety                                                  *)
(* ---------------------------------------------------------------- *)
\* C5: at most one thread is between a successful Lock and the matching
\* Unlock of the same WorkQueue, and while a thread is there the lock word
\* of that queue is 1.
C5_MutualExclusion ==
    \A q \in DOMAIN workqueues :
        /\ Cardinality(Holders(q)) <= 1
        /\ Holders(q) # {} => workqueues[q].lock = 1

\* a queue is held by one thread while two other threads spin in its Lock
C5_Witness ==
    \E q \in DOMAIN workqueues :
        Cardinality(Holders(q)) = 1 /\ Cardinality(Waiters(q)) >= 2

(* ---------------------------------------------------------------- *)
(* C6  Queue bounds                                                 *)
(* ---------------------------------------------------------------- *)
\* C6: for N >= 1, every WorkQueue satisfies 0 <= next <= last <= N in every
\* reachable state (so whenever its lock is free and at every acquisition):
\* no steal moves last below next, no pop moves next above last.
C6_QueueBounds ==
    N >= 1 =>
        \A q \in DOMAIN workqueues :
            /\ 0 <= workqueues[q].next
            /\ workqueues[q].next <= workqueues[q].last
            /\ workqueues[q].last <= N

\* a free queue that was shortened by a steal and then emptied by its owner
C6_Witness ==
    \E q \in DOMAIN workqueues :
        /\ workqueues[q].lock = 0
        /\ workqueues[q].last < InitialQueue(q).last
        /\ workqueues[q].next > InitialQueue(q).next
        /\ workqueues[q].next = workqueues[q].last

(* ---------------------------------------------------------------- *)
(* C7  Queue monotonicity                                           *)
(* ---------------------------------------------------------------- *)
\* C7: no step taken after the queues were set up decreases next or
\* increases last of any queue.
C7_Monotone ==
    [][\A q \in DOMAIN workqueues :
          /\ workqueues'[q].next >= workqueues[q].next
          /\ workqueues'[q].last <= workqueues[q].last]_vars

\* a queue whose next was advanced by its owner and whose last was
\* retracted by a thief
C7_Witness ==
    \E q \in DOMAIN workqueues :
        /\ workqueues[q].next > InitialQueue(q).next
        /\ workqueues[q].last < InitialQueue(q).last

(* ---------------------------------------------------------------- *)
(* C8  Empty batch                                                  *)
(* ---------------------------------------------------------------- *)
\* C8: for N = 0 no kernel invocation occurs, no output cell is stored to,
\* the completed counters add up to 0, and the process is never brought
\* down: run_parallel returns normally.
C8_EmptyBatch ==
    N = 0 =>
        /\ dpc \notin Dead
        /\ \A t \in DOMAIN worked : worked[t] = << >>
        /\ \A a \in DOMAIN out : out[a] = Untouched
        /\ dpc \in {"audit", "returned"} => SumCompleted(contexts, num_thread) = 0

(* ---------------------------------------------------------------- *)
(* C9  Fewer elements than threads                                  *)
(* ---------------------------------------------------------------- *)
\* C9 as stated: for 0 < N < T, once the workers are done, exactly N threads
\* have processed exactly one element and the other T - N threads have run
\* (drained nothing, stolen nothing) and exited.
C9_AsStated ==
    (0 < N /\ N < ThreadCount /\ AllExited /\ ~apiFailed) =>
        /\ Cardinality({t \in Tids : Elements(worked[t]) = 1}) = N
        /\ Cardinality({t \in Tids : Elements(worked[t]) = 0}) = ThreadCount - N

\* C9 amended: for 0 < N < T the dispatcher lowers the thread count to N:
\* exactly N worker threads exist, thread t processes exactly the one
\* element t of its own queue, nothing is stolen, and no further thread
\* (no idle thread) is created.
C9_Degenerate ==
    (0 < N /\ N < ThreadCount /\ dpc # "start") =>
        /\ num_thread = N
        /\ DOMAIN wpc = 0..(N - 1)
        /\ \A t \in Tids : worked[t] \in {<< >>, << <<t, 1>> >>} /\ ~StoleSome(t)
        /\ AllExited =>
              \A t \in Tids : worked[t] = << <<t, 1>> >> /\ contexts[t].completed = 1

\* two elements on three configured threads, all workers done
C9_Witness ==
    /\ N = 2 /\ ThreadCount = 3
    /\ AllExited /\ dpc = "returned"

(* ---------------------------------------------------------------- *)
(* C10  Thread-API failures are fatal                               *)
(* ---------------------------------------------------------------- *)
\* C10: on every platform, once creating or joining a worker thread has
\* failed the dispatcher has aborted the process: it is not in the spawn or
\* join loop any more, and it never reaches the audit or the return.
C10_FailureIsFatal ==
    apiFailed => dpc \in {"abort_spawn", "abort_join"}

(* ---------------------------------------------------------------- *)
(* C11  Determinism across schedules                                *)
(* ---------------------------------------------------------------- *)
\* the output buffer as a function of the inputs alone (N, args, steps, the
\* input contents and the kernel): slot k holds the reference value, every
\* other cell is as the caller left it
FinalOut ==
    [a \in OutCells |->
        IF \E k \in 0..(N - 1) : OutSlot(k) = a
          THEN Reference((a - args[OutIdx]) \div steps[OutIdx])
          ELSE Untouched]

\* the completed counters a run without steals ends with
OwnShare(t) == InitialQueue(t).last - InitialQueue(t).next

\* C11: whatever interleaving and steals a run takes, the output buffer it
\* returns with is the one value FinalOut determined by the inputs alone,
\* so two runs on identical inputs return identical output buffers (the
\* completed counters are not determined by the inputs).
C11_Determinism ==
    dpc = "returned" => out = FinalOut

\* a run that returned with completed counters other than those of the run
\* without steals
C11_Witness ==
    /\ dpc = "returned"
    /\ out = FinalOut
    /\ \E t \in Tids : contexts[t].completed # OwnShare(t)

(* ---------------------------------------------------------------- *)
(* C12  Dispatcher setup                                            *)
(* ---------------------------------------------------------------- *)
\* the queues are as the setup left them: no thread was created yet
SetupJustDone == dpc = "spawn" /\ di = 0 /\ ~apiFailed

\* C12: for N >= 1, right after the setup, with chunk = N div T if that is
\* nonzero and else chunk = 1, T' = N: there are T' queues and T' contexts,
\* queue i is [i*chunk, (i+1)*chunk) for i < T'-1 and [(T'-1)*chunk, N) for
\* i = T'-1, every lock and every completed is 0, the ranges are contiguous
\* from 0 to N (hence disjoint and covering [0, N)) and none is empty.
C12_SetupRanges ==
    (N >= 1 /\ SetupJustDone) =>
        LET c == IF N \div ThreadCount # 0 THEN N \div ThreadCount ELSE 1
            Tp == IF N \div ThreadCount # 0 THEN ThreadCount ELSE N
        IN  /\ ChunkSize = c /\ num_thread = Tp
            /\ DOMAIN workqueues = 0..(Tp - 1)
            /\ DOMAIN contexts = 0..(Tp - 1)
            /\ \A i \in 0..(Tp - 1) :
                  /\ workqueues[i].next = i * c
                  /\ workqueues[i].last = IF i < Tp - 1 THEN (i + 1) * c ELSE N
                  /\ workqueues[i].lock = 0
                  /\ contexts[i].id = i /\ contexts[i].completed = 0
                  /\ workqueues[i].next < workqueues[i].last
                  /\ i > 0 => workqueues[i].next = workqueues[i - 1].last
            /\ workqueues[0].next = 0
            /\ workqueues[Tp - 1].last = N

\* the setup of a batch whose last queue absorbs a remainder, and the setup
\* of a batch with fewer elements than configured threads
C12_Witness ==
    /\ SetupJustDone
    /\ \/ N = 3 /\ ThreadCount = 2 /\ workqueues[1].last - workqueues[1].next = 2
       \/ N = 2 /\ ThreadCount = 3 /\ num_thread = 2

(* ---------------------------------------------------------------- *)
(* C13  Steal-check                                                 *)
(* ---------------------------------------------------------------- *)
\* unclaimed elements of queue q
Remaining(q) == workqueues[q].last - workqueues[q].next

\* thread t takes the step from s to d
Moves(t, s, d) == wpc[t] = s /\ wpc'[t] = d

\* C13: in the step in which a stealer gets the peer's lock, the steal
\* succeeds if and only if last - next >= GRANULARITY at that moment; a
\* successful steal lowers last by exactly G, leaves next alone and hands the
\* stealer exactly [last-G, last); a failed one leaves the queue's range
\* alone; processing the stolen range adds exactly G to the stealer's
\* completed; and while 0 < last - next < G no step moves last and no thread
\* other than the owner removes an element of [next, last).
C13_StealCheck ==
    [][/\ \A t \in DOMAIN wpc :
             /\ Moves(t, "s_lock", "s_held") =>
                   LET q == workqueues[peer[t]]
                       r == workqueues'[peer[t]]
                   IN  /\ took'[t] <=> (q.last - q.next >= GRANULARITY)
                       /\ took'[t] =>
                             /\ r.last = q.last - GRANULARITY
                             /\ r.next = q.next
                             /\ item'[t] = q.last - GRANULARITY
                             /\ claimed'[t] =
                                  Append(claimed[t], <<q.last - GRANULARITY, GRANULARITY>>)
                       /\ ~took'[t] =>
                             r.last = q.last /\ r.next = q.next /\ claimed' = claimed
             /\ (wpc[t] = "s_work" /\ wpc'[t] # "s_work") =>
                   /\ contexts'[t].completed = contexts[t].completed + GRANULARITY
                   /\ worked'[t] = Append(worked[t], <<item[t], GRANULARITY>>)
       /\ \A q \in DOMAIN workqueues :
             (0 < Remaining(q) /\ Remaining(q) < GRANULARITY) =>
                /\ workqueues'[q].last = workqueues[q].last
                /\ \A t \in DOMAIN claimed :
                      (t # q /\ claimed'[t] # claimed[t]) =>
                         LET c == claimed'[t][Len(claimed'[t])]
                         IN  c[1] + c[2] <= workqueues[q].next
                               \/ c[1] >= workqueues[q].last]_vars

\* a thread that stole before holds the lock of a peer queue with a residue
\* of fewer than G elements, and its steal-check has failed
C13_Witness ==
    \E t \in Tids :
        /\ wpc[t] = "s_held" /\ ~took[t]
        /\ 0 < Remaining(peer[t]) /\ Remaining(peer[t]) < GRANULARITY
        /\ StoleSome(t)

(* ---------------------------------------------------------------- *)
(* C14  Local-drain iteration                                       *)
(* ---------------------------------------------------------------- *)
\* thread t is past its local drain
DrainOver(t) == wpc[t] \in {"s_lock", "s_held", "s_work", "exit"}

\* the ranges <<item, amt>> overlap
Overlap(c, d) == c[1] < d[1] + d[2] /\ d[1] < c[1] + c[2]

\* the j-th range thread t removed came from the front of its own queue
OwnPop(t, j) ==
    InitialQueue(t).next <= claimed[t][j][1] /\ claimed[t][j][1] < InitialQueue(t).last

\* C14: while the owner holds its lock after the pop, amt = min(G, last - next)
\* of the values it found, and next stands amt further; the exit test
\* item >= last is true exactly when amt is 0; the owner is at the kernel
\* invocation only with amt >= 1 and has left the drain only with amt = 0;
\* and no index of a range popped by the owner is ever removed or processed
\* by another thread, whatever steals hit the queue afterwards.
C14_LocalDrain ==
    \A t \in DOMAIN wpc :
        /\ wpc[t] = "d_held" =>
              /\ AMT[t] = Min(GRANULARITY, last[t] - item[t])
              /\ workqueues[t].next = item[t] + AMT[t]
              /\ workqueues[t].last = last[t]
              /\ (item[t] >= last[t]) <=> (AMT[t] = 0)
        /\ wpc[t] = "d_work" =>
              /\ AMT[t] >= 1 /\ item[t] < last[t]
              /\ claimed[t][Len(claimed[t])] = <<item[t], AMT[t]>>
        /\ DrainOver(t) => AMT[t] = 0 /\ Remaining(t) = 0
        /\ \A j \in 1..Len(claimed[t]) :
              OwnPop(t, j) =>
                 \A u \in DOMAIN wpc :
                    u # t =>
                       /\ \A i \in 1..Len(claimed[u]) : ~Overlap(claimed[t][j], claimed[u][i])
                       /\ \A i \in 1..Len(worked[u]) : ~Overlap(claimed[t][j], worked[u][i])

\* an owner is about to run the kernel on a popped range while a steal has
\* shortened its queue since it unlocked
C14_Witness ==
    \E t \in Tids :
        /\ wpc[t] = "d_work"
        /\ workqueues[t].last < last[t]
        /\ workqueues[t].next = item[t] + AMT[t]

(* ---------------------------------------------------------------- *)
(* C15  Unlock is performed by the holder                           *)
(* ---------------------------------------------------------------- *)
\* C15: the lock-corruption abort is never reached; a thread about to
\* Unlock a queue finds its lock word 1; and the lock word of a queue is 1
\* exactly while one thread is between Lock and Unlock of that queue, so
\* every path out of a critical section (a drain iteration that claimed
\* nothing and a steal-check that did not steal included) has unlocked
\* once, and nothing unlocks without holding.
C15_UnlockByHolder ==
    /\ dpc # "abort_lock"
    /\ \A q \in DOMAIN workqueues :
          /\ workqueues[q].lock \in {0, 1}
          /\ workqueues[q].lock = 1 <=> Cardinality(Holders(q)) = 1
          /\ workqueues[q].lock = 0 <=> Holders(q) = {}

\* every lock is free after a worker went through the drain iteration that
\* claims nothing and through a pass of steal-checks that stole nothing
C15_Witness ==
    /\ num_thread >= 2
    /\ \E t \in Tids : wpc[t] = "exit" /\ ~took[t] /\ AMT[t] = 0
    /\ \A q \in DOMAIN workqueues : workqueues[q].lock = 0
    /\ \E u \in Tids : wpc[u] = "d_work"

(* ---------------------------------------------------------------- *)
(* C16  Setup stores stay inside the arrays                         *)
(* ---------------------------------------------------------------- *)
\* C16: for every N >= 0 and T >= 1, once the setup has run, the slots it
\* wrote are those of indices 0..T'-1 of the workqueues and contexts arrays
\* of length T' = num_thread, and the store of N through index T'-1 fell
\* inside the workqueues array.
C16_SetupInBounds ==
    dpc # "start" =>
        /\ DOMAIN workqueues = 0..(num_thread - 1)
        /\ DOMAIN contexts = 0..(num_thread - 1)
        /\ (num_thread - 1) \in DOMAIN workqueues
        /\ ~stray

(* ---------------------------------------------------------------- *)
(* C17  Leaving the steal loop                                      *)
(* ---------------------------------------------------------------- *)
\* a full pass of thread t in which no steal-check succeeded
FullFailedPass(t) == {<<i, FALSE>> : i \in Tids \ {t}}

\* element k was given to the kernel by thread t
WorkedBy(t, k) ==
    \E j \in 1..Len(worked[t]) : worked[t][j][1] <= k /\ k < worked[t][j][1] + worked[t][j][2]

\* a worker has exited while some queue still holds unclaimed elements
ExitedEarly ==
    \E t \in DOMAIN wpc : wpc[t] = "exit" /\ \E q \in DOMAIN workqueues : Remaining(q) > 0

\* every element a queue started with and nobody stole was processed by the
\* queue's owner, and nothing is left in any queue
OwnersFinished ==
    \A q \in DOMAIN workqueues :
        /\ Remaining(q) = 0
        /\ \A k \in InitialQueue(q).next..(workqueues[q].last - 1) : WorkedBy(q, k)

\* the state of a worker in or after its steal loop
ExitAfterFailedPass ==
    \A t \in DOMAIN wpc :
        /\ DrainOver(t) => (wpc[t] = "exit" <=> pass[t] = FullFailedPass(t))
        /\ wpc[t] = "exit" =>
              /\ Remaining(t) = 0
              /\ \A q \in DOMAIN workqueues :
                    /\ Remaining(q) < GRANULARITY
                    /\ Remaining(q) > 0 => ~DrainOver(q)

\* C17: a worker past its drain has exited exactly when its current pass
\* is a full pass over all peers i # tid in which no steal-check succeeded;
\* once it has exited, its own queue is empty and every peer queue holds
\* fewer than G unclaimed elements, and a peer queue that still holds some
\* belongs to an owner that has not finished its drain; and, under fair
\* scheduling and with the thread API not failing, whenever a worker has
\* exited while elements are unclaimed, eventually every queue is empty
\* with all its unstolen elements processed by its owner.
C17_StealLoopExit ==
    /\ []ExitAfterFailedPass
    /\ ExitedEarly ~> (OwnersFinished \/ apiFailed \/ dpc \in Dead)

\* a worker has exited while a peer holds a residue and is running the
\* kernel on a range popped earlier
C17_Witness ==
    \E t, q \in Tids :
        /\ wpc[t] = "exit" /\ t # q
        /\ pass[t] = FullFailedPass(t)
        /\ Remaining(q) > 0 /\ wpc[q] = "d_work"
        /\ ~apiFailed

(* ---------------------------------------------------------------- *)
(* C18  Worker phase ordering                                       *)
(* ---------------------------------------------------------------- *)
\* thread t is in its steal loop
Stealing(t) == wpc[t] \in {"s_lock", "s_held", "s_work"}

\* C18: a thread in its steal loop (spinning for a peer's lock, holding it,
\* or processing a stolen range) has an empty own queue and is at a peer
\* other than itself; the step that ends a thread's local drain is taken
\* from the critical section of its own queue in which it found
\* next = last; a thread past its drain never returns to it, and its own
\* queue never changes again.
C18_PhaseOrder ==
    /\ [](\A t \in DOMAIN wpc :
             Stealing(t) => /\ Remaining(t) = 0
                            /\ peer[t] \in Tids /\ peer[t] # t
                            /\ AMT[t] = 0)
    /\ [][\A t \in DOMAIN wpc :
             /\ (~DrainOver(t) /\ wpc'[t] \in {"s_lock", "s_held", "s_work", "exit"}) =>
                   /\ wpc[t] = "d_held"
                   /\ item[t] = workqueues[t].next
                   /\ workqueues[t].next = workqueues[t].last
                   /\ last[t] = workqueues[t].last
             /\ DrainOver(t) =>
                   /\ wpc'[t] \in {"s_lock", "s_held", "s_work", "exit"}
                   /\ workqueues'[t].next = workqueues[t].next
                   /\ workqueues'[t].last = workqueues[t].last]_vars

\* a thread that drained its own queue is processing a range stolen from a
\* peer
C18_Witness ==
    \E t \in Tids :
        /\ wpc[t] = "s_work"
        /\ Remaining(t) = 0
        /\ Len(worked[t]) >= 1
        /\ item[t] >= InitialQueue(peer[t]).next /\ item[t] < InitialQueue(peer[t]).last

(* ---------------------------------------------------------------- *)
(* C19  WorkQueue state machine                                     *)
(* ---------------------------------------------------------------- *)
\* the last range thread t removed
LastClaim(t) == claimed[t][Len(claimed[t])]

\* C19: in every step and for every queue, last - next does not grow; an
\* EMPTY queue (next = last) keeps its next and its last; and a queue with
\* last - next < G keeps its last, any range removed from it in the step being
\* removed by its owner.
C19_QueueStates ==
    [][\A q \in DOMAIN workqueues :
          /\ workqueues'[q].last - workqueues'[q].next <= Remaining(q)
          /\ Remaining(q) = 0 =>
                /\ workqueues'[q].next = workqueues[q].next
                /\ workqueues'[q].last = workqueues[q].last
          /\ Remaining(q) < GRANULARITY =>
                /\ workqueues'[q].last = workqueues[q].last
                /\ workqueues'[q].next # workqueues[q].next =>
                      /\ wpc[q] = "d_lock" /\ wpc'[q] = "d_held"
                      /\ claimed'[q] # claimed[q]
                      /\ LastClaim(q)' = <<workqueues[q].next, Remaining(q)>>]_vars

\* a queue that started with at least G elements, lost a full chunk to a
\* thief, was left with fewer than G elements and has then been emptied by
\* its owner
C19_Witness ==
    \E q \in Tids :
        /\ InitialQueue(q).last - InitialQueue(q).next >= GRANULARITY
        /\ workqueues[q].last < InitialQueue(q).last
        /\ Remaining(q) = 0
        /\ claimed[q] # << >>
        /\ LastClaim(q)[2] < GRANULARITY
        /\ LastClaim(q)[1] + LastClaim(q)[2] = workqueues[q].last

(* ---------------------------------------------------------------- *)
(* C20  Frame of worker steps                                       *)
(* ---------------------------------------------------------------- *)
\* the step is one of worker t
StepOf(t) == wpc[t] # "unborn" /\ wpc'[t] # wpc[t]

\* C20: a step of worker t leaves N (dimensions), args, steps, num_thread,
\* every context's id and every other thread's completed alone; it changes
\* next only of its own queue, in the step in which it takes that queue's
\* free lock for a drain iteration, leaving last alone; it changes last only
\* of the peer queue whose free lock it takes for a steal-check, leaving
\* next alone; in both cases it holds the lock afterwards.  And a completed
\* counter changes only in a step of its own thread.
C20_Frame ==
    [][/\ \A t \in DOMAIN wpc :
             StepOf(t) =>
                /\ N' = N /\ args' = args /\ steps' = steps
                /\ ThreadCount' = ThreadCount /\ num_thread' = num_thread
                /\ \A u \in DOMAIN contexts :
                      /\ contexts'[u].id = contexts[u].id
                      /\ u # t => contexts'[u].completed = contexts[u].completed
                /\ \A q \in DOMAIN workqueues :
                      /\ workqueues'[q].next # workqueues[q].next =>
                            /\ q = t
                            /\ wpc[t] = "d_lock" /\ wpc'[t] = "d_held"
                            /\ workqueues[q].lock = 0 /\ workqueues'[q].lock = 1
                            /\ workqueues'[q].last = workqueues[q].last
                      /\ workqueues'[q].last # workqueues[q].last =>
                            /\ q # t /\ q = peer[t]
                            /\ wpc[t] = "s_lock" /\ wpc'[t] = "s_held"
                            /\ workqueues[q].lock = 0 /\ workqueues'[q].lock = 1
                            /\ workqueues'[q].next = workqueues[q].next
       /\ \A u \in DOMAIN contexts :
             contexts'[u].completed # contexts[u].completed =>
                wpc[u] \in {"d_work", "s_work"} /\ wpc'[u] # wpc[u]
       /\ \A q \in DOMAIN workqueues :
             (workqueues'[q].next # workqueues[q].next
                \/ workqueues'[q].last # workqueues[q].last) =>
                   \E t \in DOMAIN wpc : StepOf(t)]_vars

\* a stealer holds the lock of a peer queue whose last it has just lowered
\* and whose next the owner had advanced before
C20_Witness ==
    \E t \in Tids :
        /\ wpc[t] = "s_held" /\ took[t]
        /\ workqueues[peer[t]].lock = 1
        /\ workqueues[peer[t]].next > InitialQueue(peer[t]).next
        /\ workqueues[peer[t]].last < InitialQueue(peer[t]).last
        /\ contexts[t].completed > 0

(* ---------------------------------------------------------------- *)
(* C21  Completed counters                                          *)
(* ---------------------------------------------------------------- *)
\* every queue starts with fewer than G elements
AllQueuesShort ==
    dpc # "start" /\ \A q \in Tids : OwnShare(q) < GRANULARITY

\* the ranges thread t stole, as positions in its history
Steals(t) == {j \in 1..Len(claimed[t]) : ~OwnPop(t, j)}

\* number of elements thread t popped from its own queue
RECURSIVE OwnPopped(_, _)
OwnPopped(t, j) ==
    IF j = 0 THEN 0
    ELSE OwnPopped(t, j - 1) + (IF OwnPop(t, j) THEN claimed[t][j][2] ELSE 0)

\* C21: when every initial queue holds fewer than G elements no steal-check
\* ever succeeds and no thread ever removes a range from a peer's queue, and
\* a thread that has exited (hence every thread after the join) has
\* completed equal to the size of its own initial queue; for every batch, a
\* thread that has exited has completed equal to the elements it popped
\* from its own queue plus G times the number of its successful steals.
C21_CompletedCounters ==
    /\ AllQueuesShort =>
          \A t \in Tids :
              /\ ~took[t] /\ Steals(t) = {}
              /\ wpc[t] # "s_work"
              /\ wpc[t] = "exit" => contexts[t].completed = OwnShare(t)
    /\ \A t \in DOMAIN wpc :
          wpc[t] = "exit" =>
              contexts[t].completed =
                  OwnPopped(t, Len(claimed[t])) + GRANULARITY * Cardinality(Steals(t))

\* a batch of two queues of G - 1 elements has returned, each thread having
\* gone through a full pass of failed steal-checks
C21_Witness ==
    /\ dpc = "returned" /\ ~apiFailed
    /\ AllQueuesShort /\ N >= GRANULARITY
    /\ \A t \in Tids :
          /\ pass[t] = FullFailedPass(t)
          /\ contexts[t].completed = OwnShare(t)
          /\ OwnShare(t) = GRANULARITY - 1

====
